---- MODULE Spec2Model ----
(* State-machine model of main/usb_host_lib_main.c (uac_probe, triple-buffered *)
(* ISO URBs).  The client task runs every callback: client_event_cb, ctrl_cb   *)
(* and isoc_in_cb are invoked from usb_host_client_handle_events, which is     *)
(* called from client_task and, re-entrantly, from the wait loop of            *)
(* ctrl_set_interface.  The host stack is the environment: it decides the      *)
(* outcome of every call and which pending event the pump delivers next.       *)
EXTENDS Integers, Sequences, FiniteSets, TLC

VARIABLES
    stack,          \* ctrl_set_interface / client_event_cb activations of the client task
    sem,            \* ctrl_sem: binary semaphore, 0 or 1
    semBy,          \* ghost: the transfer whose ctrl_cb gave the token now in ctrl_sem
    g_dev,          \* g_dev: device handle written by usb_host_device_open (0 = none)
    s_iso_urbs,     \* s_iso_urbs[u]: transfer pointer, 0 = NULL
    xfers,          \* every transfer ever allocated, by handle id
    inflight,       \* transfers submitted to the host stack, callback not yet invoked
    freed,          \* transfers passed to usb_host_transfer_free
    signalled,      \* ghost: control transfers whose ctrl_cb has run
    cb,             \* transfer isoc_in_cb is running for (0 = not in isoc_in_cb)
    cbpc,           \* position inside isoc_in_cb
    cbDesc,         \* isoc_packet_desc[] of the transfer, while the packet loop has to read it
    now_us,         \* isoc_in_cb's local now_us
    clock,          \* esp_timer_get_time(): last value read
    g_pkt_cnt,
    g_byte_cnt,
    g_last_log_us,
    summaries,      \* the "pkts= bytes=" log lines emitted so far
    arrived,        \* device addresses a NEW_DEV was delivered for
    gone,           \* device addresses a DEV_GONE was delivered for
    aborted,        \* ESP_ERROR_CHECK called abort()
    failed,         \* ghost: failures hit so far
    ctrlReturned,   \* ghost: control transfers whose ctrl_set_interface call has returned
    wakeLog,        \* ghost: <<transfer of the call, giver of the token>> at each wait-loop exit
    drainLog,       \* ghost: <<transfer of the call, giver of the token>> at each drained token
    streamRet,      \* ghost: what the last start_isoc_stream call returned
    lastResubmit,   \* ghost: the last resubmission attempt of isoc_in_cb
    completions,    \* ghost: number of isoc_in_cb invocations so far
    delivered,      \* ghost: packets and bytes the host stack has handed to isoc_in_cb
    cbTrace         \* ghost: the steps the running isoc_in_cb invocation has done

vars == <<stack, sem, semBy, g_dev, s_iso_urbs, xfers, inflight, freed, signalled,
          cb, cbpc, cbDesc, now_us, clock, g_pkt_cnt, g_byte_cnt, g_last_log_us,
          summaries, arrived, gone, aborted, failed, ctrlReturned, wakeLog,
          drainLog, streamRet, lastResubmit, completions, delivered, cbTrace>>

ctrlVars  == <<sem, semBy, signalled, ctrlReturned, wakeLog, drainLog>>
statVars  == <<g_pkt_cnt, g_byte_cnt, g_last_log_us, summaries>>
cbVars    == <<cb, cbpc, cbDesc, now_us, clock, lastResubmit, completions, delivered,
               cbTrace>>

(* ---------- program constants ---------- *)
ISO_MPS          == 96
ISO_PKTS_PER_URB == 16
NUM_ISO_URBS     == 3
LOG_PERIOD_US    == 500000

SETUP_SIZE       == 8       \* sizeof(usb_setup_packet_t)
BYTE_BITS        == 8       \* g_byte_cnt * 8.0f
MS_US            == 1000    \* (now_us - g_last_log_us) / 1000.0f

(* ---------- bounds of the model ---------- *)
MaxArrivals        == 2   \* NEW_DEV notifications delivered, nested deliveries included
MaxSessions        == 1   \* NEW_DEV notifications delivered, single-device specification
MaxCompletions     == 2   \* isoc_in_cb invocations, device lifecycle specification
MaxStatCompletions == 3   \* isoc_in_cb invocations, statistics specification
MaxRateCompletions == 5   \* isoc_in_cb invocations, throughput specification
MaxGone            == 1   \* DEV_GONE notifications delivered
MaxPolls           == 2   \* failed polls counted after a call's own signal (saturating)
SplitAt            == 10  \* descriptor arrays: SplitAt packets of one kind, the rest of another

Addrs   == 1..MaxArrivals
PoolIdx == 0..(NUM_ISO_URBS - 1)

(* A packet descriptor after completion: status and actual_num_bytes. *)
PktKinds ==
    { [status |-> "completed", actual |-> ISO_MPS],
      [status |-> "completed", actual |-> 0],
      [status |-> "error",     actual |-> 0],
      [status |-> "error",     actual |-> ISO_MPS] }

(* A descriptor array: the first SplitAt packets are k1, the others k2. *)
DescArray(k1, k2) == [i \in 1..ISO_PKTS_PER_URB |-> IF i <= SplitAt THEN k1 ELSE k2]

(* The descriptor arrays the host stack hands to isoc_in_cb. *)
DescArrays == { DescArray(k1, k2) : k1 \in PktKinds, k2 \in PktKinds }

(* Full packets followed by missed ones, and a transfer with no data at all. *)
StreamDescs ==
    { DescArray([status |-> "completed", actual |-> ISO_MPS], [status |-> "error", actual |-> 0]),
      DescArray([status |-> "error", actual |-> 0], [status |-> "error", actual |-> 0]) }

(* Advances of esp_timer_get_time() between two readings. *)
TimeDeltas == {1, LOG_PERIOD_US}

(* The same where the statistics are not looked at: every second reading is   *)
(* more than LOG_PERIOD_US after the last log line.                           *)
StreamDeltas == {LOG_PERIOD_US}

(* Timer advances of a steady stream: MaxRateCompletions completions span the *)
(* log period exactly, or each comes a microsecond late.                      *)
RateDeltas == {LOG_PERIOD_US \div MaxRateCompletions,
               LOG_PERIOD_US \div MaxRateCompletions + 1}

Min(a, b) == IF a < b THEN a ELSE b

Top == stack[Len(stack)]

SetTop(f) == [stack EXCEPT ![Len(stack)] = f]

Pop == SubSeq(stack, 1, Len(stack) - 1)

NextHandle == Len(xfers) + 1

IsoHandles  == {h \in 1..Len(xfers) : xfers[h].kind = "iso"}
CtrlHandles == {h \in 1..Len(xfers) : xfers[h].kind = "ctrl"}

(* The client task is inside usb_host_client_handle_events, between callbacks. *)
InPump ==
    /\ ~aborted
    /\ cb = 0
    /\ (IF stack = <<>> THEN TRUE ELSE Top.pc = "pump")

(* A check that only logs the error. *)
ErrorCheckLogsOnly(ok) == FALSE

(* ESP_ERROR_CHECK(x): abort() unless x == ESP_OK. *)
ESP_ERROR_CHECK(ok) == ~ok

Init ==
    /\ stack = <<>>
    /\ sem = 0
    /\ semBy = 0
    /\ g_dev = 0
    /\ s_iso_urbs = [u \in PoolIdx |-> 0]
    /\ xfers = <<>>
    /\ inflight = {}
    /\ freed = {}
    /\ signalled = {}
    /\ cb = 0
    /\ cbpc = "none"
    /\ cbDesc = <<>>
    /\ now_us = 0
    /\ clock = 0
    /\ g_pkt_cnt = 0
    /\ g_byte_cnt = 0
    /\ g_last_log_us = 0
    /\ summaries = <<>>
    /\ arrived = {}
    /\ gone = {}
    /\ aborted = FALSE
    /\ failed = {}
    /\ ctrlReturned = {}
    /\ wakeLog = {}
    /\ drainLog = {}
    /\ streamRet = "none"
    /\ lastResubmit = [h |-> 0, ok |-> TRUE, deadFails |-> 0]
    /\ completions = 0
    /\ delivered = [pkts |-> 0, bytes |-> 0]
    /\ cbTrace = <<>>

(* ================== client_event_cb, NEW_DEV ================== *)
(* Runs the handler from usb_host_device_open up to the wait loop of          *)
(* ctrl_set_interface.  o is the first call that fails, "ok" if none does.    *)
NewDevOutcomes == {"open", "claim", "ctrl_alloc", "ctrl_submit", "ok"}

NewDev(addr, o) ==
    /\ InPump
    /\ addr = Cardinality(arrived) + 1
    /\ arrived' = arrived \cup {addr}
    /\ g_dev' = IF o = "open" THEN g_dev ELSE addr
    /\ failed' = IF o = "ok" THEN failed ELSE failed \cup {o}
    /\ aborted' = ESP_ERROR_CHECK(o = "ok")
    /\ IF o \in {"ctrl_submit", "ok"}
       THEN /\ xfers' = Append(xfers, [kind |-> "ctrl", dev |-> addr, status |-> "none",
                                           num_bytes |-> SETUP_SIZE, req |-> <<>>])
            /\ sem' = 0
            /\ semBy' = 0
            /\ drainLog' = IF sem = 1 THEN drainLog \cup {<<NextHandle, semBy>>} ELSE drainLog
       ELSE UNCHANGED <<xfers, sem, semBy, drainLog>>
    /\ IF o = "ok"
       THEN /\ inflight' = inflight \cup {NextHandle}
            /\ stack' = Append(stack, [xfer |-> NextHandle, pc |-> "take", since |-> 0])
       ELSE UNCHANGED <<inflight, stack>>
    /\ ctrlReturned' = IF o = "ctrl_submit" THEN ctrlReturned \cup {NextHandle} ELSE ctrlReturned
    /\ UNCHANGED <<s_iso_urbs, freed, signalled, wakeLog, streamRet, gone>>
    /\ UNCHANGED cbVars
    /\ UNCHANGED statVars

(* ================== client_event_cb, DEV_GONE ================== *)
(* A DEV_GONE handler that stops the stream and frees its transfers. *)
DevGoneStops(addr) ==
    /\ InPump
    /\ addr \in arrived \ gone
    /\ Cardinality(gone) < MaxGone
    /\ gone' = gone \cup {addr}
    /\ inflight' = inflight \ IsoHandles
    /\ freed' = freed \cup (inflight \cap IsoHandles)
    /\ UNCHANGED <<stack, g_dev, s_iso_urbs, xfers, arrived, aborted, failed, streamRet>>
    /\ UNCHANGED ctrlVars
    /\ UNCHANGED cbVars
    /\ UNCHANGED statVars

(* case USB_HOST_CLIENT_EVENT_DEV_GONE: a log line, nothing else. *)
DevGone(addr) ==
    /\ InPump
    /\ addr \in arrived \ gone
    /\ Cardinality(gone) < MaxGone
    /\ gone' = gone \cup {addr}
    /\ UNCHANGED <<stack, g_dev, s_iso_urbs, xfers, inflight, freed, arrived, aborted,
                   failed, streamRet>>
    /\ UNCHANGED ctrlVars
    /\ UNCHANGED cbVars
    /\ UNCHANGED statVars

(* ================== ctrl_cb ================== *)
(* The pump delivers the completion of control transfer h with status st.     *)
(* A transfer freed while in flight is used after free by the host stack:     *)
(* its callback may or may not still run (ran).                               *)
CtrlCb(h, st, ran) ==
    /\ InPump
    /\ h \in inflight
    /\ xfers[h].kind = "ctrl"
    /\ (h \notin freed => ran)
    /\ inflight' = inflight \ {h}
    /\ xfers' = [xfers EXCEPT ![h].status = st]
    /\ IF ran
       THEN /\ sem' = 1
            /\ semBy' = IF sem = 0 THEN h ELSE semBy
            /\ signalled' = signalled \cup {h}
       ELSE UNCHANGED <<sem, semBy, signalled>>
    /\ UNCHANGED <<stack, g_dev, s_iso_urbs, freed, arrived, gone, aborted, failed,
                   ctrlReturned, wakeLog, drainLog, streamRet>>
    /\ UNCHANGED cbVars
    /\ UNCHANGED statVars

(* ================== ctrl_set_interface, wait loop ================== *)
(* A wait that gives up at the first poll that times out. *)
WaitTimeoutGivesUp ==
    /\ ~aborted
    /\ cb = 0
    /\ stack # <<>>
    /\ Top.pc = "take"
    /\ sem = 0
    /\ stack' = SetTop([Top EXCEPT !.pc = "start"])
    /\ UNCHANGED <<g_dev, s_iso_urbs, xfers, inflight, freed, arrived, gone, aborted,
                   failed, streamRet>>
    /\ UNCHANGED ctrlVars
    /\ UNCHANGED cbVars
    /\ UNCHANGED statVars

(* xSemaphoreTake(ctrl_sem, 10 ms) timed out: the loop body pumps events. *)
WaitTimeout ==
    /\ ~aborted
    /\ cb = 0
    /\ stack # <<>>
    /\ Top.pc = "take"
    /\ sem = 0
    /\ stack' = SetTop([Top EXCEPT !.pc = "pump",
                                   !.since = IF Top.xfer \in signalled
                                             THEN Min(Top.since + 1, MaxPolls)
                                             ELSE 0])
    /\ UNCHANGED <<g_dev, s_iso_urbs, xfers, inflight, freed, arrived, gone, aborted,
                   failed, streamRet>>
    /\ UNCHANGED ctrlVars
    /\ UNCHANGED cbVars
    /\ UNCHANGED statVars

(* usb_host_client_handle_events(g_client, 10 ms) returns to the wait loop. *)
PumpReturn ==
    /\ InPump
    /\ stack # <<>>
    /\ stack' = SetTop([Top EXCEPT !.pc = "take"])
    /\ UNCHANGED <<g_dev, s_iso_urbs, xfers, inflight, freed, arrived, gone, aborted,
                   failed, streamRet>>
    /\ UNCHANGED ctrlVars
    /\ UNCHANGED cbVars
    /\ UNCHANGED statVars

(* The status ctrl_set_interface reads after the loop.  A transfer still in   *)
(* flight is being written by the host stack: either value may be read.       *)
StatusRead(h) ==
    IF h \in inflight THEN {"completed", "error"} ELSE {xfers[h].status}

(* xSemaphoreTake succeeded: the loop ends, the status is checked, the        *)
(* transfer is freed and ctrl_set_interface returns to client_event_cb.       *)
WaitDone(st) ==
    /\ ~aborted
    /\ cb = 0
    /\ stack # <<>>
    /\ Top.pc = "take"
    /\ sem = 1
    /\ st \in StatusRead(Top.xfer)
    /\ sem' = 0
    /\ semBy' = 0
    /\ wakeLog' = wakeLog \cup {<<Top.xfer, semBy>>}
    /\ freed' = freed \cup {Top.xfer}
    /\ ctrlReturned' = ctrlReturned \cup {Top.xfer}
    /\ failed' = IF st = "completed" THEN failed ELSE failed \cup {"ctrl_status"}
    /\ aborted' = ESP_ERROR_CHECK(st = "completed")
    /\ stack' = SetTop([Top EXCEPT !.pc = "start"])
    /\ UNCHANGED <<g_dev, s_iso_urbs, xfers, inflight, signalled, drainLog, arrived,
                   gone, streamRet>>
    /\ UNCHANGED cbVars
    /\ UNCHANGED statVars

(* ================== start_isoc_stream ================== *)
(* usb_host_transfer_submit on a transfer of device dev: a submission to a    *)
(* device that is gone fails; otherwise the host stack decides.               *)
SubmitMayReturn(dev) == IF dev \in gone THEN {FALSE} ELSE {TRUE, FALSE}

(* a: index of the first usb_host_transfer_alloc that fails, s: index of the  *)
(* first usb_host_transfer_submit that fails; NUM_ISO_URBS when none does.    *)
StartOutcomes ==
    { <<a, s>> \in (0..NUM_ISO_URBS) \X (0..NUM_ISO_URBS) :
        /\ (a < NUM_ISO_URBS => s = 0)
        /\ (a = NUM_ISO_URBS /\ g_dev \in gone => s = 0) }

(* The allocation loop: the transfers allocated before the failing one. *)
Allocated(a) == { NextHandle + u : u \in 0..(a - 1) }

(* s_iso_urbs after the allocation loop. *)
PoolAfterAlloc(a) ==
    [u \in PoolIdx |-> IF u < a THEN NextHandle + u ELSE s_iso_urbs[u]]

(* A submission loop that stops one transfer short. *)
SubmittedButLast(a, s) ==
    IF a < NUM_ISO_URBS THEN {} ELSE { NextHandle + u : u \in 0..(s - 2) }

(* A submission loop that goes on past the submission that failed. *)
SubmittedThroughFailure(a, s) ==
    IF a < NUM_ISO_URBS THEN {}
    ELSE { PoolAfterAlloc(a)[u] : u \in 0..Min(s, NUM_ISO_URBS - 1) }

(* The submission loop: runs only when every allocation succeeded, and       *)
(* submits s_iso_urbs[0..s-1] before the failing submission returns.          *)
Submitted(a, s) ==
    IF a < NUM_ISO_URBS THEN {} ELSE { PoolAfterAlloc(a)[u] : u \in 0..(s - 1) }

(* The value start_isoc_stream returns. *)
StartReturn(a, s) ==
    IF a < NUM_ISO_URBS THEN "alloc_fail"
    ELSE IF s < NUM_ISO_URBS THEN "submit_fail"
    ELSE "ok"

(* A per-packet fill loop that runs to the number of transfers. *)
PacketFillShort(mps) == [i \in 1..NUM_ISO_URBS |-> mps]

(* buf_size = mps * ISO_PKTS_PER_URB. *)
BufSize(mps) == mps * ISO_PKTS_PER_URB

(* isoc_packet_desc[i].num_bytes = mps for every packet of the transfer. *)
PacketFill(mps) ==
    [i \in 1..ISO_PKTS_PER_URB |-> mps]

(* One transfer as the allocation loop sets it up. *)
IsoTransfer(mps) ==
    [kind |-> "iso", dev |-> g_dev, status |-> "none",
     num_bytes |-> BufSize(mps), req |-> PacketFill(mps)]

RECURSIVE NewTransfers(_, _)
NewTransfers(xs, n) ==
    IF n = 0 THEN xs
    ELSE NewTransfers(Append(xs, IsoTransfer(ISO_MPS)), n - 1)

(* client_event_cb after ctrl_set_interface returned ESP_OK: start_isoc_stream *)
(* runs, its failure is logged, and the handler returns to the pump.          *)
StartIsocStream(a, s) ==
    /\ ~aborted
    /\ cb = 0
    /\ stack # <<>>
    /\ Top.pc = "start"
    /\ <<a, s>> \in StartOutcomes
    /\ xfers' = NewTransfers(xfers, Cardinality(Allocated(a)))
    /\ s_iso_urbs' = PoolAfterAlloc(a)
    /\ inflight' = inflight \cup Submitted(a, s)
    /\ streamRet' = StartReturn(a, s)
    /\ failed' = IF StartReturn(a, s) = "ok" THEN failed ELSE failed \cup {"start"}
    /\ stack' = Pop
    /\ UNCHANGED <<g_dev, freed, arrived, gone, aborted>>
    /\ UNCHANGED ctrlVars
    /\ UNCHANGED cbVars
    /\ UNCHANGED statVars

(* ================== isoc_in_cb ================== *)
(* The packets isoc_in_cb has to count. *)
GoodPackets(desc) ==
    { i \in DOMAIN desc : desc[i].status = "completed" /\ desc[i].actual > 0 }

RECURSIVE SumActual(_, _)
SumActual(desc, idx) ==
    IF idx = {} THEN 0
    ELSE LET i == CHOOSE j \in idx : TRUE
         IN  desc[i].actual + SumActual(desc, idx \ {i})

(* An order of isoc_in_cb that resubmits the transfer before the flush. *)
CbStepResubmitEarly(pc) ==
    CASE pc = "packets"  -> "resubmit"
      [] pc = "resubmit" -> "flush"
      [] pc = "flush"    -> "none"

(* The statements of isoc_in_cb in program order: the packet loop, the flush  *)
(* decision, the resubmission, the return.                                    *)
CbStep(pc) ==
    CASE pc = "packets"  -> "flush"
      [] pc = "flush"    -> "resubmit"
      [] pc = "resubmit" -> "none"

(* The pump invokes isoc_in_cb for the completed transfer h; the callback     *)
(* reads the timer, d microseconds after the previous reading.                *)
IsocCbEnter(h, descs, d) ==
    /\ InPump
    /\ h \in inflight
    /\ xfers[h].kind = "iso"
    /\ inflight' = inflight \ {h}
    /\ cb' = h
    /\ cbpc' = "packets"
    /\ cbDesc' = descs
    /\ now_us' = clock + d
    /\ clock' = clock + d
    /\ completions' = completions + 1
    /\ delivered' = [pkts  |-> delivered.pkts + Cardinality(GoodPackets(descs)),
                     bytes |-> delivered.bytes + SumActual(descs, GoodPackets(descs))]
    /\ cbTrace' = <<>>
    /\ UNCHANGED <<stack, g_dev, s_iso_urbs, xfers, freed, arrived, gone, aborted,
                   failed, streamRet, lastResubmit>>
    /\ UNCHANGED ctrlVars
    /\ UNCHANGED statVars

(* A packet test that does not look at the packet's status. *)
RecordedAnyStatus(d) == d.actual # 0

(* The test of the packet loop. *)
Recorded(d) == d.status = "completed" /\ d.actual # 0

(* The packet loop from descriptor i on: acc is <<g_pkt_cnt, g_byte_cnt>>. *)
RECURSIVE PacketLoop(_, _, _)
PacketLoop(desc, i, acc) ==
    IF i > Len(desc) THEN acc
    ELSE PacketLoop(desc, i + 1,
                    IF Recorded(desc[i])
                    THEN <<acc[1] + 1, acc[2] + desc[i].actual>>
                    ELSE acc)

IsocCbPackets ==
    /\ ~aborted
    /\ cbpc = "packets"
    /\ g_pkt_cnt' = PacketLoop(cbDesc, 1, <<g_pkt_cnt, g_byte_cnt>>)[1]
    /\ g_byte_cnt' = PacketLoop(cbDesc, 1, <<g_pkt_cnt, g_byte_cnt>>)[2]
    /\ cbpc' = CbStep(cbpc)
    /\ cb' = IF cbpc' = "none" THEN 0 ELSE cb
    /\ cbTrace' = Append(cbTrace, cbpc)
    /\ cbDesc' = <<>>
    /\ UNCHANGED <<stack, g_dev, s_iso_urbs, xfers, inflight, freed, arrived, gone,
                   aborted, failed, streamRet, g_last_log_us, summaries>>
    /\ UNCHANGED <<now_us, clock, lastResubmit, completions, delivered>>
    /\ UNCHANGED ctrlVars

(* A flush decision that does not look at the clock. *)
LogDueAlways(now, last) == TRUE

(* "Log every 500 ms". *)
LogDue(now, last) == now - last > LOG_PERIOD_US

(* A throughput in bytes, not bits, per millisecond. *)
KbpsBytes(bytes, elapsed_us) ==
    (bytes * MS_US * 10 * 2 + elapsed_us) \div (2 * elapsed_us)

(* kbps = (g_byte_cnt * 8.0f) / ((now_us - g_last_log_us) / 1000.0f), as the  *)
(* "%.1f" of the log line prints it: in tenths, rounded to the nearest.       *)
Kbps(bytes, elapsed_us) ==
    (bytes * BYTE_BITS * MS_US * 10 * 2 + elapsed_us) \div (2 * elapsed_us)

(* A flush that leaves the counters as they are. *)
FlushKeeps == [pkts |-> g_pkt_cnt, bytes |-> g_byte_cnt]

(* g_pkt_cnt = 0; g_byte_cnt = 0; *)
FlushReset == [pkts |-> 0, bytes |-> 0]

IsocCbFlush ==
    /\ ~aborted
    /\ cbpc = "flush"
    /\ IF LogDue(now_us, g_last_log_us)
       THEN /\ summaries' = Append(summaries,
                                   [pkts |-> g_pkt_cnt, bytes |-> g_byte_cnt,
                                    elapsed_us |-> now_us - g_last_log_us,
                                    kbps_x10 |-> Kbps(g_byte_cnt, now_us - g_last_log_us),
                                    at |-> now_us])
            /\ g_pkt_cnt' = FlushReset.pkts
            /\ g_byte_cnt' = FlushReset.bytes
            /\ g_last_log_us' = now_us
       ELSE UNCHANGED statVars
    /\ cbpc' = CbStep(cbpc)
    /\ cb' = IF cbpc' = "none" THEN 0 ELSE cb
    /\ cbTrace' = Append(cbTrace, cbpc)
    /\ UNCHANGED <<stack, g_dev, s_iso_urbs, xfers, inflight, freed, arrived, gone,
                   aborted, failed, streamRet>>
    /\ UNCHANGED <<cbDesc, now_us, clock, lastResubmit, completions, delivered>>
    /\ UNCHANGED ctrlVars

(* A failed resubmission that leaves the transfer allocated. *)
ResubmitLeak(h, ok) ==
    [inflight |-> IF ok THEN inflight \cup {h} ELSE inflight,
     freed    |-> freed]

(* A resubmission that frees the transfer whatever the submission returned. *)
ResubmitFreeAlways(h, ok) ==
    [inflight |-> IF ok THEN inflight \cup {h} ELSE inflight,
     freed    |-> freed \cup {h}]

(* "Re-submit THIS URB immediately": the transfer is in flight again, or it   *)
(* is freed when the submission failed.                                       *)
Resubmit(h, ok) ==
    [inflight |-> IF ok THEN inflight \cup {h} ELSE inflight,
     freed    |-> IF ok THEN freed ELSE freed \cup {h}]

IsocCbResubmit(ok) ==
    /\ ~aborted
    /\ cbpc = "resubmit"
    /\ ok \in SubmitMayReturn(xfers[cb].dev)
    /\ inflight' = Resubmit(cb, ok).inflight
    /\ freed' = Resubmit(cb, ok).freed
    /\ lastResubmit' = [h |-> cb, ok |-> ok,
                        deadFails |-> lastResubmit.deadFails +
                                      (IF ~ok /\ xfers[cb].dev \in gone THEN 1 ELSE 0)]
    /\ failed' = IF ok THEN failed ELSE failed \cup {"resubmit"}
    /\ cbpc' = CbStep(cbpc)
    /\ cb' = IF cbpc' = "none" THEN 0 ELSE cb
    /\ cbTrace' = Append(cbTrace, cbpc)
    /\ UNCHANGED <<stack, g_dev, s_iso_urbs, xfers, arrived, gone, aborted, streamRet,
                   cbDesc, now_us, clock, completions, delivered>>
    /\ UNCHANGED ctrlVars
    /\ UNCHANGED statVars

(* ================== the program ================== *)
Next ==
    \/ \E addr \in Addrs, o \in NewDevOutcomes : NewDev(addr, o)
    \/ \E addr \in Addrs : DevGone(addr)
    \/ \E h \in 1..Len(xfers), st \in {"completed", "error"}, ran \in BOOLEAN : CtrlCb(h, st, ran)
    \/ WaitTimeout
    \/ PumpReturn
    \/ \E st \in {"completed", "error"} : WaitDone(st)
    \/ \E a \in 0..NUM_ISO_URBS, s \in 0..NUM_ISO_URBS : StartIsocStream(a, s)
    \/ \E h \in 1..Len(xfers), descs \in StreamDescs, d \in StreamDeltas :
           completions < MaxCompletions /\ IsocCbEnter(h, descs, d)
    \/ IsocCbPackets
    \/ IsocCbFlush
    \/ \E ok \in BOOLEAN : IsocCbResubmit(ok)

(* Device lifecycle: up to MaxArrivals devices, nested deliveries included. *)
Spec == Init /\ [][Next]_vars

(* The design's case: MaxSessions devices. *)
NextSingle ==
    \/ \E addr \in 1..MaxSessions, o \in NewDevOutcomes : NewDev(addr, o)
    \/ \E addr \in 1..MaxSessions : DevGone(addr)
    \/ \E h \in 1..Len(xfers), st \in {"completed", "error"}, ran \in BOOLEAN : CtrlCb(h, st, ran)
    \/ WaitTimeout
    \/ PumpReturn
    \/ \E st \in {"completed", "error"} : WaitDone(st)
    \/ \E a \in 0..NUM_ISO_URBS, s \in 0..NUM_ISO_URBS : StartIsocStream(a, s)
    \/ \E h \in 1..Len(xfers), descs \in StreamDescs, d \in StreamDeltas :
           completions < MaxCompletions /\ IsocCbEnter(h, descs, d)
    \/ IsocCbPackets
    \/ IsocCbFlush
    \/ \E ok \in BOOLEAN : IsocCbResubmit(ok)

SpecSingle == Init /\ [][NextSingle]_vars

(* Statistics: one device, every descriptor array of DescArrays. *)
NextStats ==
    \/ \E o \in NewDevOutcomes : arrived = {} /\ NewDev(1, o)
    \/ DevGone(1)
    \/ \E h \in 1..Len(xfers), st \in {"completed", "error"} : CtrlCb(h, st, TRUE)
    \/ WaitTimeout
    \/ PumpReturn
    \/ \E st \in {"completed", "error"} : WaitDone(st)
    \/ \E a \in 0..NUM_ISO_URBS, s \in 0..NUM_ISO_URBS : StartIsocStream(a, s)
    \/ \E h \in 1..Len(xfers), descs \in DescArrays, d \in TimeDeltas :
           completions < MaxStatCompletions /\ IsocCbEnter(h, descs, d)
    \/ IsocCbPackets
    \/ IsocCbFlush
    \/ \E ok \in BOOLEAN : IsocCbResubmit(ok)

SpecStats == Init /\ [][NextStats]_vars

(* Throughput: one device delivering the stream's descriptor arrays at a      *)
(* steady rate, MaxRateCompletions completions to the log period.             *)
NextRate ==
    \/ \E o \in NewDevOutcomes : arrived = {} /\ NewDev(1, o)
    \/ DevGone(1)
    \/ \E h \in 1..Len(xfers), st \in {"completed", "error"} : CtrlCb(h, st, TRUE)
    \/ WaitTimeout
    \/ PumpReturn
    \/ \E st \in {"completed", "error"} : WaitDone(st)
    \/ \E a \in 0..NUM_ISO_URBS, s \in 0..NUM_ISO_URBS : StartIsocStream(a, s)
    \/ \E h \in 1..Len(xfers), descs \in StreamDescs, d \in RateDeltas :
           completions < MaxRateCompletions /\ IsocCbEnter(h, descs, d)
    \/ IsocCbPackets
    \/ IsocCbFlush
    \/ \E ok \in BOOLEAN : IsocCbResubmit(ok)

SpecRate == Init /\ [][NextRate]_vars

(* ================== properties ================== *)

(* A transfer that is allocated, not submitted, not in isoc_in_cb, not freed. *)
Idle(h) == h # 0 /\ h \notin inflight /\ h \notin freed /\ h # cb

(* Pool transfers in flight or inside isoc_in_cb. *)
Active == (inflight \cap IsoHandles) \cup (IF cb = 0 THEN {} ELSE {cb})

(* s_iso_urbs holds NUM_ISO_URBS distinct transfers, all in flight. *)
PoolAllInFlight ==
    /\ \A u \in PoolIdx : s_iso_urbs[u] # 0 /\ s_iso_urbs[u] \in inflight
    /\ Cardinality({ s_iso_urbs[u] : u \in PoolIdx }) = NUM_ISO_URBS

(* C1: once start_isoc_stream has written s_iso_urbs, no transfer the pool    *)
(* holds is idle: each is in flight, inside isoc_in_cb, or was freed.         *)
C1_NoIdlePoolHandle == \A u \in PoolIdx : ~Idle(s_iso_urbs[u])

(* C2: the transfer a ctrl_set_interface call allocated is freed when the     *)
(* call has returned, on every return path.                                   *)
C2_CtrlHandleFreedOnReturn == ctrlReturned \subseteq freed

(* The failures client_event_cb passes to ESP_ERROR_CHECK. *)
CheckedFailures == {"open", "claim", "ctrl_alloc", "ctrl_submit", "ctrl_status"}

C4_ReturnsSoonAfterSignal == \A i \in 1..Len(stack) : stack[i].since < MaxPolls

(* C5: at most one control transfer is submitted with its waiter still in     *)
(* the wait loop.                                                             *)
C5_OneControlOutstanding ==
    Cardinality({ i \in 1..Len(stack) : stack[i].pc \in {"take", "pump"} }) <= 1

(* C6: a wait loop ends on the token given by the completion of the call's    *)
(* own transfer, and the drain never takes that token.                        *)
C6_WokenByOwnSignal ==
    /\ \A p \in wakeLog : p[1] = p[2]
    /\ \A p \in drainLog : p[1] # p[2]

(* C7: the packet loop adds the number of completed nonzero-length packets to *)
(* g_pkt_cnt and the sum of their actual lengths to g_byte_cnt, and the       *)
(* transfer is then resubmitted: it is in flight again, and not freed, unless *)
(* the submission itself failed.                                              *)
C7_PacketAccounting ==
    [][ /\ (cbpc = "packets" /\ cbpc' = "flush") =>
             /\ g_pkt_cnt' = g_pkt_cnt + Cardinality(GoodPackets(cbDesc))
             /\ g_byte_cnt' = g_byte_cnt + SumActual(cbDesc, GoodPackets(cbDesc))
        /\ (cbpc = "resubmit" /\ cbpc' = "none") =>
             /\ lastResubmit'.h = cb
             /\ lastResubmit'.ok => (cb \in inflight' /\ cb \notin freed')
      ]_vars

(* After a transfer of 16 full packets and one of 10 full packets and 6      *)
(* packets that are not counted. *)
C7_Witness ==
    /\ cbpc = "flush"
    /\ completions = 2
    /\ g_pkt_cnt = ISO_PKTS_PER_URB + SplitAt
    /\ g_byte_cnt = (ISO_PKTS_PER_URB + SplitAt) * ISO_MPS

(* C8: a failed resubmission frees that transfer and nothing else, the active *)
(* transfers decrease by exactly that one, the others stay in flight, and the *)
(* client task goes on.                                                       *)
C8_ResubmitFailure ==
    [][ (cbpc = "resubmit" /\ cbpc' = "none" /\ ~lastResubmit'.ok) =>
            /\ cb \in Active
            /\ Active' = Active \ {cb}
            /\ Cardinality(Active') = Cardinality(Active) - 1
            /\ freed' = freed \cup {cb}
            /\ inflight' = inflight
            /\ s_iso_urbs' = s_iso_urbs
            /\ ~aborted'
            /\ stack' = stack
      ]_vars

C8_Witness ==
    /\ ~lastResubmit.ok
    /\ lastResubmit.h \in freed
    /\ cb # 0
    /\ cb # lastResubmit.h
    /\ cbpc = "resubmit"

C10_AllSubmittedOnReturn ==
    [][ Len(stack') < Len(stack) => PoolAllInFlight' ]_vars

(* C10 amended: whenever start_isoc_stream returns ESP_OK, the pool holds the *)
(* NUM_ISO_URBS transfers the call allocated and all are in flight.           *)
C10_AllSubmittedOnOk ==
    [][ (Len(stack') < Len(stack) /\ streamRet' = "ok") =>
            /\ PoolAllInFlight'
            /\ \A u \in PoolIdx : s_iso_urbs'[u] = Len(xfers) + 1 + u
            /\ Len(xfers') = Len(xfers) + NUM_ISO_URBS
      ]_vars

C10_Witness ==
    /\ streamRet = "ok"
    /\ stack = <<>>
    /\ PoolAllInFlight
    /\ completions = 0

(* The SET_INTERFACE control transfer of device dev has completed with status *)
(* completed.                                                                 *)
CtrlCompleted(dev) ==
    \E c \in CtrlHandles :
        xfers[c].dev = dev /\ c \in signalled /\ xfers[c].status = "completed"

(* C11: every isochronous transfer that has been allocated belongs to a       *)
(* device whose control transfer has completed with status completed.         *)
C11_StreamAfterControl == \A h \in IsoHandles : CtrlCompleted(xfers[h].dev)

(* C12: a flush sets both counters to zero and g_last_log_us to the time the  *)
(* callback read; two log lines are more than LOG_PERIOD_US apart, so of two  *)
(* flush checks within one period at most one emits a line.                   *)
C12_FlushResets ==
    /\ [][Len(summaries') > Len(summaries) =>
            g_pkt_cnt' = 0 /\ g_byte_cnt' = 0 /\ g_last_log_us' = now_us]_vars
    /\ [](\A i \in 1..(Len(summaries) - 1) :
            summaries[i + 1].at - summaries[i].at > LOG_PERIOD_US)

(* A flush check within one period of the last log line, with no packet       *)
(* recorded since, has emitted nothing.                                       *)
C12_Witness ==
    /\ Len(summaries) = 1
    /\ cbTrace = <<"packets", "flush">>
    /\ now_us > summaries[1].at
    /\ now_us - summaries[1].at <= LOG_PERIOD_US
    /\ g_last_log_us = summaries[1].at
    /\ g_pkt_cnt = 0

Abs(x) == IF x < 0 THEN 0 - x ELSE x

(* The sums of the counts the first n log lines reported. *)
RECURSIVE Reported(_, _)
Reported(sums, n) ==
    IF n = 0 THEN [pkts |-> 0, bytes |-> 0]
    ELSE [pkts  |-> Reported(sums, n - 1).pkts + sums[n].pkts,
          bytes |-> Reported(sums, n - 1).bytes + sums[n].bytes]

(* C13: the flush decision emits a log line exactly when more than            *)
(* LOG_PERIOD_US have passed since the last one; the line reports the packets *)
(* and bytes delivered since the last line, and a throughput within half a    *)
(* tenth of 8 * bytes / elapsed milliseconds; the counters are zero after it. *)
C13_FlushSummary ==
    [][cbpc = "flush" /\ cbpc' # "flush" =>
         IF now_us - g_last_log_us > LOG_PERIOD_US
         THEN /\ Len(summaries') = Len(summaries) + 1
              /\ LET r == summaries'[Len(summaries')]
                     e == now_us - g_last_log_us
                 IN  /\ r.elapsed_us = e
                     /\ r.pkts = delivered.pkts - Reported(summaries, Len(summaries)).pkts
                     /\ r.bytes = delivered.bytes - Reported(summaries, Len(summaries)).bytes
                     /\ 2 * Abs(r.kbps_x10 * e - 8 * r.bytes * 1000 * 10) <= e
              /\ g_pkt_cnt' = 0
              /\ g_byte_cnt' = 0
         ELSE summaries' = summaries]_vars

(* 50 packets of 96 bytes in just over 500 ms: one line, 4800 bytes, 76.8     *)
(* kbit/s, counters zero.                                                     *)
C13_Witness ==
    /\ Len(summaries) = 1
    /\ summaries[1].pkts = 50
    /\ summaries[1].bytes = 4800
    /\ summaries[1].kbps_x10 = 768
    /\ summaries[1].elapsed_us - LOG_PERIOD_US \in 1..MaxRateCompletions
    /\ cbTrace = <<"packets", "flush">>
    /\ g_pkt_cnt = 0
    /\ g_byte_cnt = 0

RECURSIVE SumSeq(_)
SumSeq(q) == IF q = <<>> THEN 0 ELSE Head(q) + SumSeq(Tail(q))

(* C14: for every isochronous transfer that is submitted or in isoc_in_cb,    *)
(* the isoc_packet_desc[i].num_bytes add up to the transfer's num_bytes,      *)
(* which is the maximum packet size times ISO_PKTS_PER_URB.                   *)
C14_PacketLengthsSum ==
    \A h \in Active :
        /\ SumSeq(xfers[h].req) = xfers[h].num_bytes
        /\ xfers[h].num_bytes = ISO_MPS * ISO_PKTS_PER_URB
        /\ Len(xfers[h].req) = ISO_PKTS_PER_URB

C14_Witness ==
    /\ lastResubmit.ok
    /\ lastResubmit.h \in inflight \cap IsoHandles
    /\ Cardinality(inflight \cap IsoHandles) = NUM_ISO_URBS

(* C15: a DEV_GONE notification changes nothing of the program's state, and   *)
(* every later resubmission of a transfer of that device is attempted, fails, *)
(* and frees the transfer without stopping the program.                       *)
C15_GoneChangesNothing ==
    /\ [][gone' # gone =>
            /\ UNCHANGED <<stack, g_dev, s_iso_urbs, xfers, inflight, freed, aborted>>
            /\ UNCHANGED <<sem, cb, cbpc>>
            /\ UNCHANGED statVars]_vars
    /\ [][cbpc = "resubmit" /\ cbpc' # "resubmit" /\ xfers[cb].dev \in gone =>
            /\ lastResubmit'.h = cb
            /\ ~lastResubmit'.ok
            /\ cb \in freed' /\ cb \notin inflight'
            /\ ~aborted']_vars

(* Two resubmissions against the device that is gone have failed. *)
C15_Witness ==
    /\ gone # {}
    /\ lastResubmit.deadFails >= 2
    /\ inflight \cap IsoHandles # {}

(* The devices usb_host_device_open has opened; none is ever closed. *)
Opened == IF "open" \in failed THEN arrived \ {Cardinality(arrived)} ELSE arrived

(* C16: at most one device is open, and every transfer of the pool that is    *)
(* not freed refers to the device g_dev holds.                                *)
C16_SingleSession ==
    /\ Cardinality(Opened) <= 1
    /\ \A h \in IsoHandles \ freed : xfers[h].dev = g_dev

(* C17: a ctrl_set_interface call leaves its wait loop only by taking a token *)
(* of ctrl_sem: while no token is given it polls and pumps, and neither the   *)
(* call nor the handler that made it goes on.                                 *)
C17_NoDeadline ==
    [][\A i \in 1..Len(stack) :
         (/\ stack[i].pc \in {"take", "pump"}
          /\ (Len(stack') < i \/ stack'[i].pc \notin {"take", "pump"}))
         => sem = 1 /\ sem' = 0]_vars

(* The device is gone, its control transfer has not completed, and the call   *)
(* is pumping events after a poll that timed out.                             *)
C17_Witness ==
    /\ stack # <<>>
    /\ Top.pc = "pump"
    /\ Top.xfer \in inflight
    /\ Top.xfer \notin signalled
    /\ xfers[Top.xfer].dev \in gone
    /\ sem = 0

(* C18: an isoc_in_cb invocation runs the packet loop, then one flush         *)
(* decision, then one resubmission of its own transfer, and returns; the      *)
(* transfer is submitted again or freed only after the first two; a log line  *)
(* covers every packet delivered so far, the invocation's own included.       *)
C18_CallbackOrder ==
    /\ [][cb # 0 /\ cb' = 0 => cbTrace' = <<"packets", "flush", "resubmit">>]_vars
    /\ [][cb # 0 /\ cb \in inflight' \cup freed' =>
            cbTrace = <<"packets", "flush">> /\ lastResubmit'.h = cb]_vars
    /\ [][Len(summaries') > Len(summaries) =>
            Reported(summaries', Len(summaries')) = delivered]_vars

(* The second invocation flushed: its line counts the packets of both. *)
C18_Witness ==
    /\ cb = 0
    /\ completions = 2
    /\ cbTrace = <<"packets", "flush", "resubmit">>
    /\ Len(summaries) = 1
    /\ summaries[1].pkts = 2 * ISO_PKTS_PER_URB
    /\ lastResubmit.ok

(* start_isoc_stream returns to client_event_cb. *)
StartStep == stack # <<>> /\ Top.pc = "start" /\ Len(stack') < Len(stack)

(* C19: when start_isoc_stream returns an error it has freed nothing; when    *)
(* the k-th allocation failed nothing was submitted, when the k-th submission *)
(* failed exactly the k transfers before it are in flight; a transfer left    *)
(* idle is never submitted or freed later.                                    *)
C19_FailureLeavesHandles ==
    /\ [][StartStep /\ streamRet' # "ok" =>
            /\ freed' = freed
            /\ \E k \in 0..(NUM_ISO_URBS - 1) :
                 \/ /\ streamRet' = "alloc_fail"
                    /\ Len(xfers') = Len(xfers) + k
                    /\ inflight' = inflight
                 \/ /\ streamRet' = "submit_fail"
                    /\ Len(xfers') = Len(xfers) + NUM_ISO_URBS
                    /\ inflight' = inflight \cup { Len(xfers) + u : u \in 1..k }]_vars
    /\ [][\A h \in IsoHandles : Idle(h) => h \notin inflight' /\ h \notin freed']_vars

(* After a failed submission the transfers submitted before it still          *)
(* complete and are resubmitted, and the others sit idle.                     *)
C19_Witness ==
    /\ streamRet = "submit_fail"
    /\ \E u \in PoolIdx : Idle(s_iso_urbs[u])
    /\ lastResubmit.ok
    /\ lastResubmit.h \in inflight
    /\ completions = MaxCompletions
    /\ freed \cap IsoHandles = {}

(* The good packets of an invocation whose packet loop has not run yet. *)
Unprocessed ==
    IF cbpc = "packets"
    THEN [pkts  |-> Cardinality(GoodPackets(cbDesc)),
          bytes |-> SumActual(cbDesc, GoodPackets(cbDesc))]
    ELSE [pkts |-> 0, bytes |-> 0]

(* C20: the counts of all log lines so far plus the current counters equal    *)
(* the number and the total length of the completed nonzero-length packets    *)
(* processed so far.                                                          *)
C20_NothingLostOrDoubled ==
    /\ Reported(summaries, Len(summaries)).pkts + g_pkt_cnt
         = delivered.pkts - Unprocessed.pkts
    /\ Reported(summaries, Len(summaries)).bytes + g_byte_cnt
         = delivered.bytes - Unprocessed.bytes

(* Packets were reported by a log line and more were recorded after it. *)
C20_Witness ==
    /\ Len(summaries) >= 1
    /\ summaries[1].pkts > 0
    /\ g_pkt_cnt > 0
    /\ cb = 0

==============================================================================
